---- MODULE Spec2Model ----
(***************************************************************************)
(* Model of ImageLocationFinder.py: the EXIF GPS decoder, the reverse      *)
(* geocoding call, the JSON-backed history list and the two UI handlers    *)
(* (upload_image, delete_entry) that mutate it.                            *)
(*                                                                         *)
(* Python values are tagged records: the tag t names the Python type and   *)
(* the payload lives in a field whose name depends on the type.  Floats    *)
(* are exact rationals <<num, den>> (den > 0, lowest terms); rounding of   *)
(* IEEE arithmetic is not modelled.                                        *)
(***************************************************************************)
EXTENDS Integers, Sequences, FiniteSets, TLC

VARIABLES
    pc,            \* "start" | "mainloop" | "saving" | "terminated" | "pure"
    history,       \* the module global `history`
    disk,          \* the file SAVE_FILE: [exists, text]
    rows,          \* items the rendered Delete buttons are bound to
    status_label,  \* text of status_label
    op,            \* the handler that ran last, the branch it took, its item
    image,         \* the image file handed to the decoder (SpecPure)
    coords,        \* result of get_lat_lon in the last upload
    response,      \* outcome of the HTTP request of the last get_address
    address,       \* result of the last get_address
    calls,         \* the calls the last handler made, in order
    raised,        \* exception the last handler let escape ("" if none)
    io_failed,     \* a save has failed since the last save that completed
    disk0,         \* the file as it was when the write in progress opened it
    pending        \* text json.dump still has to write (stepwise save only)

vars == <<pc, history, disk, rows, status_label, op, image, coords, response,
          address, calls, raised, io_failed, disk0, pending>>

(***************************************************************************)
(* Python values                                                           *)
(***************************************************************************)
PyNone == [t |-> "None"]
PyStr(s) == [t |-> "str", s |-> s]
PyFloat(q) == [t |-> "float", q |-> q]
PyTuple(l) == [t |-> "tuple", l |-> l]
PyList(l) == [t |-> "list", l |-> l]
PyDict(d) == [t |-> "dict", d |-> d]
EmptyDict == PyDict([k \in {} |-> PyNone])
\* An exception travelling up from an expression.
Raise(e) == [t |-> "raise", e |-> e]
IsRaise(x) == x.t = "raise"
\* A local that has not been assigned.
Unset == [t |-> "unset"]

\* Python truthiness (bool(x)).
Truthy(x) ==
    CASE x.t = "None" -> FALSE
      [] x.t = "str" -> x.s # ""
      [] x.t = "float" -> x.q[1] # 0
      [] x.t \in {"tuple", "list"} -> Len(x.l) > 0
      [] x.t = "dict" -> DOMAIN x.d # {}
      [] OTHER -> TRUE

(***************************************************************************)
(* Exact rational arithmetic standing for float arithmetic                 *)
(***************************************************************************)
Abs(n) == IF n < 0 THEN -n ELSE n

RECURSIVE Gcd(_, _)
Gcd(a, b) == IF b = 0 THEN a ELSE Gcd(b, a % b)

Norm(n, d) ==
    LET g == Gcd(Abs(n), Abs(d))
        s == IF d < 0 THEN -1 ELSE 1
    IN  <<(s * n) \div g, (s * d) \div g>>

Rat(n) == <<n, 1>>
RAdd(a, b) == Norm(a[1] * b[2] + b[1] * a[2], a[2] * b[2])
RDiv(a, b) == Norm(a[1] * b[2], a[2] * b[1])
RNeg(a) == <<-a[1], a[2]>>
RLe(a, b) == a[1] * b[2] <= b[1] * a[2]

(***************************************************************************)
(* Strings: the characters of the strings the model uses, and float(str)   *)
(***************************************************************************)
CharsOf(s) ==
    CASE s = "" -> <<>>
      [] s = "abc" -> <<"a", "b", "c">>
      [] s = "777" -> <<"7", "7", "7">>
      [] OTHER -> <<s>>

\* float(x)
PyFloatOf(x) ==
    CASE x.t = "float" -> x
      [] x.t = "str" -> IF x.s = "7" THEN PyFloat(Rat(7)) ELSE Raise("ValueError")
      [] OTHER -> Raise("TypeError")

\* x[i] for an integer index i (0-based, as in the source)
GetItem(x, i) ==
    CASE x.t \in {"tuple", "list"} ->
            IF i < Len(x.l) THEN x.l[i + 1] ELSE Raise("IndexError")
      [] x.t = "str" ->
            IF i < Len(CharsOf(x.s)) THEN PyStr(CharsOf(x.s)[i + 1])
            ELSE Raise("IndexError")
      [] x.t = "dict" -> Raise("KeyError")
      [] OTHER -> Raise("TypeError")

\* x[k] for a string key k
GetKey(x, k) ==
    CASE x.t = "dict" -> IF k \in DOMAIN x.d THEN x.d[k] ELSE Raise("KeyError")
      [] OTHER -> Raise("TypeError")

\* x.get(k) on a dict
DictGet(x, k) == IF k \in DOMAIN x.d THEN x.d[k] ELSE PyNone

(***************************************************************************)
(* Coordinate decoder                                                      *)
(***************************************************************************)
ToFloatNoZeroCheck(x) ==
    LET f == PyFloatOf(x)
        a == GetItem(x, 0)
        b == GetItem(x, 1)
    IN  IF ~IsRaise(f) THEN f
        ELSE IF IsRaise(a) \/ IsRaise(b) THEN PyNone
        ELSE IF IsRaise(PyFloatOf(a)) \/ IsRaise(PyFloatOf(b)) THEN PyNone
        ELSE IF PyFloatOf(b).q[1] = 0 THEN PyFloat(Rat(0))
        ELSE PyFloat(RDiv(PyFloatOf(a).q, PyFloatOf(b).q))

_to_float(x) ==
    LET f == PyFloatOf(x)
        a == GetItem(x, 0)
        b == GetItem(x, 1)
    IN  IF ~IsRaise(f) THEN f
        ELSE IF IsRaise(a) \/ IsRaise(b) THEN PyNone
        ELSE IF IsRaise(PyFloatOf(a)) \/ IsRaise(PyFloatOf(b)) THEN PyNone
        ELSE IF PyFloatOf(b).q[1] = 0 THEN PyNone    \* ZeroDivisionError
        ELSE PyFloat(RDiv(PyFloatOf(a).q, PyFloatOf(b).q))

ConvertMinutesAsSeconds(value) ==
    LET v0 == GetItem(value, 0)
        v1 == GetItem(value, 1)
        v2 == GetItem(value, 2)
    IN  IF IsRaise(v0) \/ IsRaise(v1) \/ IsRaise(v2) THEN PyNone
        ELSE LET d == _to_float(v0)
                 m == _to_float(v1)
                 s == _to_float(v2)
             IN  IF PyNone \in {d, m, s} THEN PyNone
                 ELSE PyFloat(RAdd(RAdd(d.q, RDiv(m.q, Rat(3600))),
                                   RDiv(s.q, Rat(3600))))

convert_to_degrees(value) ==
    LET v0 == GetItem(value, 0)
        v1 == GetItem(value, 1)
        v2 == GetItem(value, 2)
    IN  IF IsRaise(v0) \/ IsRaise(v1) \/ IsRaise(v2) THEN PyNone
        ELSE LET d == _to_float(v0)
                 m == _to_float(v1)
                 s == _to_float(v2)
             IN  IF PyNone \in {d, m, s} THEN PyNone
                 ELSE PyFloat(RAdd(RAdd(d.q, RDiv(m.q, Rat(60))),
                                   RDiv(s.q, Rat(3600))))

\* `gps.get(ref) and gps[ref] != positive`
RefNegates(gps, ref, positive) ==
    Truthy(DictGet(gps, ref)) /\ DictGet(gps, ref) # PyStr(positive)

get_lat_lon(exif) ==
    LET g == DictGet(exif, "GPSInfo")
        gps == IF Truthy(g) THEN g ELSE EmptyDict
        vlat == GetKey(gps, "GPSLatitude")
        vlon == GetKey(gps, "GPSLongitude")
    IN  IF IsRaise(vlat) \/ IsRaise(vlon) THEN PyNone
        ELSE LET lat == convert_to_degrees(vlat)
                 lon == convert_to_degrees(vlon)
             IN  IF lat = PyNone \/ lon = PyNone THEN PyNone
                 ELSE PyTuple(<<
                        IF RefNegates(gps, "GPSLatitudeRef", "N")
                        THEN PyFloat(RNeg(lat.q)) ELSE lat,
                        IF RefNegates(gps, "GPSLongitudeRef", "E")
                        THEN PyFloat(RNeg(lon.q)) ELSE lon >>)

(***************************************************************************)
(* Geocode client                                                          *)
(***************************************************************************)
ADDRESS_NOT_FOUND == PyStr("Address not found")

\* The outcome of requests.get: an exception (connection error, timeout), or
\* a response with a status code and a body that r.json() parses or rejects.
NoRequest == [kind |-> "none"]
RequestError(e) == [kind |-> "error", e |-> e]
HttpResponse(status, parses, json) ==
    [kind |-> "http", status |-> status, parses |-> parses, json |-> json]

get_address(r) ==
    IF r.kind = "error" THEN ADDRESS_NOT_FOUND           \* except Exception
    ELSE IF r.status # 200 THEN ADDRESS_NOT_FOUND
    ELSE IF ~r.parses THEN ADDRESS_NOT_FOUND              \* r.json() raises
    ELSE IF r.json.t # "dict" THEN ADDRESS_NOT_FOUND      \* data.get: AttributeError
    ELSE IF "display_name" \in DOMAIN r.json.d THEN r.json.d["display_name"]
    ELSE ADDRESS_NOT_FOUND

(***************************************************************************)
(* JSON text: a sequence of tokens.  An array is "[", one token per        *)
(* element, "]"; an object token carries its members in written order.     *)
(***************************************************************************)
TokOpen == [j |-> "["]
TokClose == [j |-> "]"]
TokGarbage == [j |-> "garbage"]

\* Member order of the objects the program writes (dict insertion order).
KeyOrder == <<"status", "name", "path", "lat", "lon", "address", "reason", "k">>

EncodeScalar(v) ==
    CASE v.t = "str" -> [j |-> "string", s |-> v.s]
      [] v.t = "float" -> [j |-> "number", q |-> v.q]
      [] OTHER -> [j |-> "null"]

EncodeValue(v) ==
    IF v.t = "dict"
    THEN LET keys == SelectSeq(KeyOrder, LAMBDA k : k \in DOMAIN v.d)
         IN  [j |-> "object",
              pairs |-> [i \in 1..Len(keys) |-> <<keys[i], EncodeScalar(v.d[keys[i]])>>]]
    ELSE EncodeScalar(v)

JsonDumpDropLast(v) ==
    IF v.t = "list"
    THEN <<TokOpen>> \o [i \in 1..(Len(v.l) - 1) |-> EncodeValue(v.l[i])] \o <<TokClose>>
    ELSE <<EncodeValue(v)>>

\* json.dump(v, f): the text written
JsonDump(v) ==
    IF v.t = "list"
    THEN <<TokOpen>> \o [i \in 1..Len(v.l) |-> EncodeValue(v.l[i])] \o <<TokClose>>
    ELSE <<EncodeValue(v)>>

DecodeScalar(tok) ==
    CASE tok.j = "string" -> PyStr(tok.s)
      [] tok.j = "number" -> PyFloat(tok.q)
      [] OTHER -> PyNone

DecodeValue(tok) ==
    IF tok.j = "object"
    THEN PyDict([k \in {tok.pairs[i][1] : i \in 1..Len(tok.pairs)} |->
                    LET last == CHOOSE i \in 1..Len(tok.pairs) :
                                  /\ tok.pairs[i][1] = k
                                  /\ \A n \in 1..Len(tok.pairs) :
                                        tok.pairs[n][1] = k => n <= i
                    IN  DecodeScalar(tok.pairs[last][2])])
    ELSE DecodeScalar(tok)

IsValueTok(tok) == tok.j \in {"object", "string", "number", "null"}

\* json.load(f): the value, or the JSONDecodeError
JsonLoad(text) ==
    IF Len(text) = 1 /\ IsValueTok(text[1]) THEN DecodeValue(text[1])
    ELSE IF /\ Len(text) >= 2
            /\ text[1] = TokOpen
            /\ text[Len(text)] = TokClose
            /\ \A i \in 2..(Len(text) - 1) : IsValueTok(text[i])
         THEN PyList([i \in 1..(Len(text) - 2) |-> DecodeValue(text[i + 1])])
         ELSE Raise("JSONDecodeError")

(***************************************************************************)
(* History store                                                           *)
(***************************************************************************)
NoFile == [exists |-> FALSE, text |-> <<>>]
File(text) == [exists |-> TRUE, text |-> text]

load_history(d) ==
    IF d.exists
    THEN IF IsRaise(JsonLoad(d.text)) THEN PyList(<<>>) ELSE JsonLoad(d.text)
    ELSE PyList(<<>>)

\* save_history(): the file afterwards and the exception, if any.  open() for
\* writing truncates the file; cut is how far the write got: -1 when open()
\* itself raises, Len(text) when json.dump completes.
SaveHistoryStale(h, d, cut) == [disk |-> d, raised |-> ""]

save_history(h, d, cut) ==
    LET text == JsonDump(h)
    IN  IF cut < 0 THEN [disk |-> d, raised |-> "OSError"]
        ELSE IF cut < Len(text)
             THEN [disk |-> File(SubSeq(text, 1, cut)), raised |-> "OSError"]
             ELSE [disk |-> File(text), raised |-> ""]

(***************************************************************************)
(* Rendering: which rows refresh_history builds before it returns or raises *)
(***************************************************************************)
IsFloat(v) == v.t = "float"

\* A row is built completely: item["path"], item["name"], item.get("status"),
\* and for status "ok" round(item["lat"], 6), round(item["lon"], 6).
Renders(item) ==
    /\ item.t = "dict"
    /\ {"path", "name"} \subseteq DOMAIN item.d
    /\ DictGet(item, "status") = PyStr("ok") =>
          /\ {"lat", "lon"} \subseteq DOMAIN item.d
          /\ IsFloat(item.d["lat"]) /\ IsFloat(item.d["lon"])

refresh_history(h) ==
    IF ~Truthy(h) THEN [rows |-> <<>>, raised |-> ""]
    ELSE IF h.t # "list" THEN [rows |-> <<>>, raised |-> "TypeError"]
    ELSE IF \A i \in 1..Len(h.l) : Renders(h.l[i])
         THEN [rows |-> h.l, raised |-> ""]
         ELSE LET bad == CHOOSE i \in 1..Len(h.l) :
                            /\ ~Renders(h.l[i])
                            /\ \A n \in 1..(i - 1) : Renders(h.l[n])
              IN  [rows |-> SubSeq(h.l, 1, bad - 1), raised |-> "TypeError"]

(***************************************************************************)
(* Metadata reader: the image file is an input; extract_exif returns its   *)
(* resolved tag table, or {} when the file cannot be read or has no EXIF.  *)
(***************************************************************************)
ImageFile(kind, exif) == [kind |-> kind, exif |-> exif]
NoImage == ImageFile("none", EmptyDict)

extract_exif(img) == IF img.kind = "exif" THEN img.exif ELSE EmptyDict

\* Builders of the inputs.
Num(n) == PyFloat(Rat(n))
Ratio(n, d) == PyTuple(<<Num(n), Num(d)>>)
Triple(a, b, c) == PyTuple(<<a, b, c>>)
Gps(lat, lon, latRef, lonRef) ==
    LET f == [GPSLatitude |-> lat, GPSLongitude |-> lon,
              GPSLatitudeRef |-> latRef, GPSLongitudeRef |-> lonRef]
    IN  PyDict([k \in {x \in DOMAIN f : f[x] # Unset} |-> f[k]])
WithGps(g) == ImageFile("exif", PyDict([k \in {"Make", "GPSInfo"} |->
                                          IF k = "Make" THEN PyStr("cam") ELSE g]))
NoGpsExif == ImageFile("exif", PyDict([k \in {"Make"} |-> PyStr("cam")]))

(***************************************************************************)
(* The application: inputs of the handlers                                 *)
(***************************************************************************)
MaxHistory == 3

NO_GPS_REASON_TEXT == PyStr("No GPS data found because: ...")

\* os.path.basename
Basename(p) ==
    CASE p = "/pics/a.jpg" -> "a.jpg"
      [] p = "/pics/b.png" -> "b.png"
      [] OTHER -> p

Pittsburgh ==
    WithGps(Gps(Triple(Ratio(40, 1), Ratio(26, 1), Ratio(46, 1)),
                Triple(Ratio(79, 1), Ratio(58, 1), Ratio(36, 1)),
                PyStr("N"), PyStr("W")))
BeyondPole ==
    WithGps(Gps(Triple(Num(91), Num(0), Num(0)), Triple(Num(0), Num(0), Num(0)),
                PyStr("S"), Unset))

\* The image files the user can pick: path and content.
Files ==
    {[path |-> "/pics/a.jpg", img |-> NoGpsExif],
     [path |-> "/pics/a.jpg", img |-> Pittsburgh],
     [path |-> "/pics/b.png", img |-> BeyondPole]}

DisplayName(v) == PyDict([k \in {"display_name"} |-> v])
AppResponses == {HttpResponse(200, TRUE, DisplayName(PyStr("Pittsburgh, PA")))}

NoGpsItem(path) ==
    PyDict([status |-> PyStr("no_gps"), name |-> PyStr(Basename(path)),
            path |-> PyStr(path), reason |-> NO_GPS_REASON_TEXT])
OkItem(path, c, addr) ==
    PyDict([status |-> PyStr("ok"), name |-> PyStr(Basename(path)),
            path |-> PyStr(path), lat |-> c.l[1], lon |-> c.l[2],
            address |-> addr])

\* What history.json may hold when the program starts.
InitialDisks ==
    {NoFile,
     File(<<>>),
     File(<<TokGarbage>>),
     File(<<TokOpen, EncodeValue(NoGpsItem("/pics/a.jpg"))>>),
     File(JsonDump(PyNone)),
     File(JsonDump(EmptyDict)),
     File(JsonDump(PyDict([k \in {"k"} |-> PyStr("v")]))),
     File(JsonDump(PyList(<<Num(1)>>))),
     File(JsonDump(PyList(<<>>))),
     File(JsonDump(PyList(<<NoGpsItem("/pics/a.jpg")>>)))}

\* op.name: "startup", "upload_cancelled", "upload", "delete_declined",
\* "delete_not_found", "delete"; op.item: the item built or passed in.
Op(name, item) == [name |-> name, item |-> item]

Init ==
    /\ pc = "start"
    /\ history = Unset
    /\ disk \in InitialDisks
    /\ rows = <<>>
    /\ status_label = <<"">>
    /\ op = Op("none", PyNone)
    /\ image = NoImage
    /\ coords = Unset
    /\ response = NoRequest
    /\ address = Unset
    /\ calls = <<>>
    /\ raised = ""
    /\ io_failed = FALSE
    /\ disk0 = NoFile
    /\ pending = <<>>

(***************************************************************************)
(* Module start-up: history = load_history(); refresh_history()            *)
(***************************************************************************)
Startup ==
    /\ pc = "start"
    /\ LET h == load_history(disk)
           r == refresh_history(h)
       IN  /\ history' = h
           /\ rows' = r.rows
           /\ raised' = r.raised
           /\ pc' = IF r.raised = "" THEN "mainloop" ELSE "terminated"
    /\ op' = Op("startup", PyNone)
    /\ calls' = <<"load_history", "refresh_history">>
    /\ status_label' = <<"">>
    /\ coords' = Unset /\ response' = NoRequest /\ address' = Unset
    /\ UNCHANGED <<disk, io_failed, image, disk0, pending>>

(***************************************************************************)
(* upload_image                                                            *)
(***************************************************************************)
\* The points a save of h can stop at: -1 when open() raises, k when the
\* write raises after k tokens, Len(text) when it completes.  I/O failures
\* are isolated: the save that follows a failed one completes.
SaveCuts(h) ==
    IF io_failed THEN {Len(JsonDump(h))} ELSE -1 .. Len(JsonDump(h))

Faulted(h, cut) == cut < Len(JsonDump(h))

\* history.append(item); save_history(); status; refresh_history()
AppendAndSave(item, cut, before) ==
    IF history.t # "list"
    THEN /\ raised' = "AttributeError"
         /\ calls' = before \o <<"append">>
         /\ UNCHANGED <<history, disk, rows, status_label, io_failed>>
    ELSE LET h == PyList(Append(history.l, item))
             s == save_history(h, disk, cut)
             r == refresh_history(h)
         IN  /\ history' = h
             /\ disk' = s.disk
             /\ io_failed' = Faulted(h, cut)
             /\ IF s.raised # ""
                THEN /\ raised' = s.raised
                     /\ calls' = before \o <<"append", "save_history">>
                     /\ UNCHANGED <<rows, status_label>>
                ELSE /\ raised' = r.raised
                     /\ calls' = before \o <<"append", "save_history", "refresh_history">>
                     /\ rows' = r.rows
                     /\ status_label' =
                           IF item.d["status"] = PyStr("ok")
                           THEN <<"Saved: ", item.d["name"].s>>
                           ELSE <<"Saved (no GPS): ", item.d["name"].s>>

UploadCancelled ==
    /\ pc = "mainloop"
    /\ op' = Op("upload_cancelled", PyNone)
    /\ status_label' = <<"No file selected.">>
    /\ calls' = <<"askopenfilename">>
    /\ raised' = ""
    /\ coords' = Unset /\ response' = NoRequest /\ address' = Unset
    /\ UNCHANGED <<pc, history, disk, rows, io_failed, image, disk0, pending>>

UploadNoGps(file_path, c, cut) ==
    /\ pc = "mainloop"
    /\ ~Truthy(c)
    /\ op' = Op("upload", NoGpsItem(file_path))
    /\ coords' = c
    /\ response' = NoRequest
    /\ address' = Unset
    /\ AppendAndSave(NoGpsItem(file_path), cut,
                     <<"askopenfilename", "extract_exif", "get_lat_lon">>)
    /\ UNCHANGED <<pc, image, disk0, pending>>

UploadLocated(file_path, c, resp, cut) ==
    /\ pc = "mainloop"
    /\ Truthy(c)
    /\ LET a == get_address(resp)
       IN  /\ op' = Op("upload", OkItem(file_path, c, a))
           /\ coords' = c
           /\ response' = resp
           /\ address' = a
           /\ AppendAndSave(OkItem(file_path, c, a), cut,
                            <<"askopenfilename", "extract_exif", "get_lat_lon",
                              "get_address">>)
    /\ UNCHANGED <<pc, image, disk0, pending>>

\* The cuts of the save an upload makes (the history with one more item).
UploadCuts ==
    IF history.t = "list" THEN SaveCuts(PyList(Append(history.l, PyNone))) ELSE {0}
Room == history.t = "list" => Len(history.l) < MaxHistory

upload_image ==
    \/ UploadCancelled
    \/ /\ Room
       /\ \E f \in Files, cut \in UploadCuts :
             LET c == get_lat_lon(extract_exif(f.img))
             IN  \/ UploadNoGps(f.path, c, cut)
                 \/ \E resp \in AppResponses : UploadLocated(f.path, c, resp, cut)

(***************************************************************************)
(* delete_entry(item), bound to the Delete button of a rendered row        *)
(***************************************************************************)
RemoveLast(l, x) ==
    LET i == CHOOSE n \in 1..Len(l) : l[n] = x /\ \A m \in (n + 1)..Len(l) : l[m] # x
    IN  SubSeq(l, 1, i - 1) \o SubSeq(l, i + 1, Len(l))

\* list.remove(x) when x is in the list
ListRemove(l, x) ==
    LET i == CHOOSE n \in 1..Len(l) : l[n] = x /\ \A m \in 1..(n - 1) : l[m] # x
    IN  SubSeq(l, 1, i - 1) \o SubSeq(l, i + 1, Len(l))

Contains(l, x) == \E n \in 1..Len(l) : l[n] = x

DeleteDeclined(item) ==
    /\ op' = Op("delete_declined", item)
    /\ calls' = <<"askyesno">>
    /\ raised' = ""
    /\ UNCHANGED <<history, disk, rows, status_label, io_failed>>

DeleteNotFound(item) ==
    /\ ~Contains(history.l, item)
    /\ op' = Op("delete_not_found", item)
    /\ calls' = <<"askyesno", "remove">>
    /\ raised' = ""                      \* except ValueError: pass
    /\ UNCHANGED <<history, disk, rows, status_label, io_failed>>

DeleteFound(item, cut) ==
    /\ Contains(history.l, item)
    /\ op' = Op("delete", item)
    /\ LET h == PyList(ListRemove(history.l, item))
           s == save_history(h, disk, cut)
           r == refresh_history(h)
       IN  /\ history' = h
           /\ disk' = s.disk
           /\ io_failed' = Faulted(h, cut)
           /\ IF s.raised # ""
              THEN /\ raised' = s.raised
                   /\ calls' = <<"askyesno", "remove", "save_history">>
                   /\ UNCHANGED <<rows, status_label>>
              ELSE /\ raised' = r.raised
                   /\ calls' = <<"askyesno", "remove", "save_history", "refresh_history">>
                   /\ rows' = r.rows
                   /\ status_label' = <<"Deleted: ", item.d["name"].s>>

delete_entry(item) ==
    /\ pc = "mainloop"
    /\ coords' = Unset /\ response' = NoRequest /\ address' = Unset
    /\ UNCHANGED <<pc, image, disk0, pending>>
    /\ \/ DeleteDeclined(item)
       \/ DeleteNotFound(item)
       \/ /\ Contains(history.l, item)
          /\ \E cut \in SaveCuts(PyList(ListRemove(history.l, item))) :
                DeleteFound(item, cut)

Next ==
    \/ Startup
    \/ upload_image
    \/ \E i \in 1..Len(rows) : delete_entry(rows[i])

Spec == Init /\ [][Next]_vars

(***************************************************************************)
(* The decoder and the geocode client on their own: SpecPure draws one     *)
(* input, an image file or an HTTP outcome, and applies the function.      *)
(***************************************************************************)
GoodComponents == {Num(40), Ratio(53, 2)}
BadComponents ==
    {PyNone, PyStr("abc"), Ratio(1, 0), PyTuple(<<Num(1)>>), PyTuple(<<>>),
     PyTuple(<<Num(1), PyStr("abc")>>)}

GoodTriples ==
    {Triple(d, m, s) : d \in GoodComponents, m \in GoodComponents, s \in GoodComponents}
        \cup {Triple(PyStr("7"), Num(0), Ratio(0, 1)),
              PyTuple(<<Num(40), Num(26), Num(46), Num(9)>>),
              PyStr("777")}
BadTriples ==
    {Triple(b, Num(26), Num(46)) : b \in BadComponents}
        \cup {Triple(Num(40), b, Num(46)) : b \in BadComponents}
        \cup {Triple(Num(40), Num(26), b) : b \in BadComponents}
        \cup {PyTuple(<<Num(40), Num(26)>>), PyNone, Num(40), PyStr("abc")}

CoordinateValues == GoodTriples \cup BadTriples \cup {Unset}
LatRefs == {Unset, PyStr("N"), PyStr("S"), PyStr("")}
LonRefs == {Unset, PyStr("E"), PyStr("W"), PyStr("")}

DecodeImages ==
    {ImageFile("unreadable", EmptyDict), ImageFile("noexif", EmptyDict), NoGpsExif,
     WithGps(Num(346)), WithGps(EmptyDict)}
        \cup {WithGps(Gps(lat, lon, latRef, lonRef)) :
                lat \in CoordinateValues, lon \in CoordinateValues,
                latRef \in LatRefs, lonRef \in LonRefs}

JsonBodies ==
    {PyList(<<>>), PyStr("Pittsburgh, PA"), PyNone, Num(5), EmptyDict,
     PyDict([k \in {"error"} |-> PyStr("Unable to geocode")]),
     DisplayName(PyStr("Pittsburgh, PA")), DisplayName(PyStr("")),
     DisplayName(PyNone), DisplayName(Num(5))}

Responses ==
    {RequestError("ConnectionError"), RequestError("Timeout")}
        \cup {HttpResponse(st, TRUE, b) : st \in {200, 404, 500}, b \in JsonBodies}
        \cup {HttpResponse(st, FALSE, PyNone) : st \in {200, 404, 500}}

InitPure ==
    /\ pc = "pure"
    /\ \/ image \in DecodeImages /\ response = NoRequest
       \/ image = NoImage /\ response \in Responses
    /\ coords = Unset
    /\ address = Unset
    /\ history = Unset
    /\ disk = NoFile
    /\ rows = <<>>
    /\ status_label = <<"">>
    /\ op = Op("none", PyNone)
    /\ calls = <<>>
    /\ raised = ""
    /\ io_failed = FALSE
    /\ disk0 = NoFile
    /\ pending = <<>>

Decode ==
    /\ pc = "pure"
    /\ image # NoImage
    /\ coords = Unset
    /\ coords' = get_lat_lon(extract_exif(image))
    /\ calls' = <<"extract_exif", "get_lat_lon">>
    /\ UNCHANGED <<pc, history, disk, rows, status_label, op, image, response,
                   address, raised, io_failed, disk0, pending>>

Geocode ==
    /\ pc = "pure"
    /\ response # NoRequest
    /\ address = Unset
    /\ address' = get_address(response)
    /\ calls' = <<"get_address">>
    /\ UNCHANGED <<pc, history, disk, rows, status_label, op, image, response,
                   coords, raised, io_failed, disk0, pending>>

NextPure == Decode \/ Geocode

SpecPure == InitPure /\ [][NextPure]_vars

(***************************************************************************)
(* save_history step by step, with the process killed at any point:        *)
(* open(SAVE_FILE, "w") truncates the file, json.dump writes the text      *)
(* piece by piece, leaving the with-block closes it.  A killed process is  *)
(* started again and loads what the file holds.                            *)
(***************************************************************************)
BeginSave(h) ==
    /\ history' = h
    /\ disk0' = disk
    /\ disk' = File(<<>>)
    /\ pending' = JsonDump(h)
    /\ pc' = "saving"
    /\ calls' = <<"open">>
    /\ raised' = ""
    /\ coords' = Unset /\ response' = NoRequest /\ address' = Unset
    /\ UNCHANGED <<rows, status_label, image, io_failed>>

UploadBegin(f) ==
    /\ pc = "mainloop"
    /\ history.t = "list"
    /\ Len(history.l) < MaxHistory
    /\ LET c == get_lat_lon(extract_exif(f.img))
           item == IF Truthy(c)
                   THEN OkItem(f.path, c, get_address(CHOOSE r \in AppResponses : TRUE))
                   ELSE NoGpsItem(f.path)
       IN  /\ op' = Op("upload", item)
           /\ BeginSave(PyList(Append(history.l, item)))

DeleteBegin(item) ==
    /\ pc = "mainloop"
    /\ Contains(history.l, item)
    /\ op' = Op("delete", item)
    /\ BeginSave(PyList(ListRemove(history.l, item)))

WriteChunk ==
    /\ pc = "saving"
    /\ pending # <<>>
    /\ disk' = File(Append(disk.text, Head(pending)))
    /\ pending' = Tail(pending)
    /\ calls' = Append(calls, "write")
    /\ UNCHANGED <<pc, history, rows, status_label, op, image, coords, response,
                   address, raised, io_failed, disk0>>

FinishSave ==
    /\ pc = "saving"
    /\ pending = <<>>
    /\ pc' = "mainloop"
    /\ rows' = refresh_history(history).rows
    /\ raised' = refresh_history(history).raised
    /\ calls' = Append(calls, "close")
    /\ status_label' = <<IF op.name = "delete" THEN "Deleted: " ELSE "Saved: ",
                         op.item.d["name"].s>>
    /\ UNCHANGED <<history, disk, op, image, coords, response, address, io_failed,
                   disk0, pending>>

\* The process is killed; op.item keeps the sequence that was being written.
Crash ==
    /\ pc = "saving"
    /\ pc' = "start"
    /\ op' = Op("crash", history)
    /\ history' = Unset
    /\ rows' = <<>>
    /\ pending' = <<>>
    /\ calls' = <<>>
    /\ status_label' = <<"">>
    /\ UNCHANGED <<disk, image, coords, response, address, raised, io_failed, disk0>>

NextCrash ==
    \/ Startup
    \/ \E f \in Files : UploadBegin(f)
    \/ \E i \in 1..Len(rows) : DeleteBegin(rows[i])
    \/ WriteChunk
    \/ FinishSave
    \/ Crash

SpecCrash == Init /\ [][NextCrash]_vars

(***************************************************************************)
(* Vocabulary of the properties                                            *)
(***************************************************************************)
Count(l, x) == Cardinality({i \in 1..Len(l) : l[i] = x})

\* r is l without its first element equal to x
WithoutFirst(l, x, r) ==
    \E i \in 1..Len(l) :
        /\ l[i] = x
        /\ \A j \in 1..(i - 1) : l[j] # x
        /\ r = SubSeq(l, 1, i - 1) \o SubSeq(l, i + 1, Len(l))

\* call a is made, and call b after it
CalledBefore(a, b) ==
    \E i, j \in 1..Len(calls) : i < j /\ calls[i] = a /\ calls[j] = b

Keys(x) == DOMAIN x.d

IsRecord(x) ==
    /\ x.t = "dict"
    /\ "status" \in Keys(x)
    /\ \/ /\ x.d["status"] = PyStr("ok")
          /\ Keys(x) = {"status", "name", "path", "lat", "lon", "address"}
       \/ /\ x.d["status"] = PyStr("no_gps")
          /\ Keys(x) = {"status", "name", "path", "reason"}

IsArrayOfRecords(d) ==
    /\ d.exists
    /\ JsonLoad(d.text).t = "list"
    /\ \A i \in 1..Len(JsonLoad(d.text).l) : IsRecord(JsonLoad(d.text).l[i])

\* The decoder's input, seen from outside the decoder.
HasGpsTable == image.kind = "exif" /\ "GPSInfo" \in Keys(image.exif)
                  /\ image.exif.d["GPSInfo"].t = "dict"
GpsTable == image.exif.d["GPSInfo"]

\* A number, or a string that spells one.
IsNumber(c) == c.t = "float" \/ c = PyStr("7")
NumberOf(c) == IF c.t = "float" THEN c.q ELSE Rat(7)
\* The components of a sequence value (a tuple, a list, a string).
IsSequence(v) == v.t \in {"tuple", "list", "str"}
Elements(v) == IF v.t = "str" THEN [i \in 1..Len(CharsOf(v.s)) |-> PyStr(CharsOf(v.s)[i])]
               ELSE v.l
\* A number, or a ratio (numerator, denominator) with a non-zero denominator.
WellFormedComponent(c) ==
    \/ IsNumber(c)
    \/ /\ IsSequence(c) /\ Len(Elements(c)) >= 2
       /\ IsNumber(Elements(c)[1]) /\ IsNumber(Elements(c)[2])
       /\ NumberOf(Elements(c)[2])[1] # 0
ComponentValue(c) ==
    IF IsNumber(c) THEN NumberOf(c)
    ELSE RDiv(NumberOf(Elements(c)[1]), NumberOf(Elements(c)[2]))
WellFormedTriple(v) ==
    /\ IsSequence(v) /\ Len(Elements(v)) >= 3
    /\ \A i \in 1..3 : WellFormedComponent(Elements(v)[i])
\* d + m/60 + s/3600
Magnitude(v) ==
    RAdd(RAdd(ComponentValue(Elements(v)[1]), RDiv(ComponentValue(Elements(v)[2]), Rat(60))),
         RDiv(ComponentValue(Elements(v)[3]), Rat(3600)))
WellFormedGps ==
    /\ HasGpsTable
    /\ {"GPSLatitude", "GPSLongitude"} \subseteq Keys(GpsTable)
    /\ WellFormedTriple(GpsTable.d["GPSLatitude"])
    /\ WellFormedTriple(GpsTable.d["GPSLongitude"])
Signed(q, negate) == PyFloat(IF negate THEN RNeg(q) ELSE q)
Decoded == pc = "pure" /\ image # NoImage /\ coords # Unset

(***************************************************************************)
(* C1                                                                      *)
(***************************************************************************)
\* C1: whenever an upload or a confirmed delete has completed without an
\* exception, the persisted document decodes to the in-memory history (same
\* records, same order), and the handler called save_history after it
\* mutated the list.
C1_PersistedEqualsMemory ==
    (op.name \in {"upload", "delete"} /\ raised = "") =>
        /\ disk.exists
        /\ JsonLoad(disk.text) = history
        /\ CalledBefore("append", "save_history") \/ CalledBefore("remove", "save_history")

C1_Witness ==
    /\ op.name = "delete" /\ raised = ""
    /\ history.t = "list" /\ Len(history.l) = 2
    /\ JsonLoad(disk.text) = history

(***************************************************************************)
(* C2                                                                      *)
(***************************************************************************)
\* C2 as stated: after append(r), load() on a fresh store ends with r; after
\* remove(r), load() yields a sequence in which no element equals r, also
\* when the history held r more than once.
C2_RemoveLeavesNoEqualRecord ==
    /\ (op.name = "upload" /\ raised = "") =>
          /\ load_history(disk).t = "list"
          /\ Len(load_history(disk).l) > 0
          /\ load_history(disk).l[Len(load_history(disk).l)] = op.item
    /\ (op.name = "delete" /\ raised = "") =>
          ~Contains(load_history(disk).l, op.item)

\* C2 amended: after append(r), load() on a fresh store ends with r; after
\* remove(r), load() yields the previous sequence without its first element
\* equal to r, so exactly one occurrence of r is gone and r is absent
\* only if the history held it once.
C2_RoundTrip ==
    [][ /\ (op'.name = "upload" /\ raised' = "") =>
              /\ load_history(disk').t = "list"
              /\ Len(load_history(disk').l) > 0
              /\ load_history(disk').l[Len(load_history(disk').l)] = op'.item
        /\ (op'.name = "delete" /\ raised' = "") =>
              /\ load_history(disk').t = "list"
              /\ WithoutFirst(history.l, op'.item, load_history(disk').l)
              /\ Count(load_history(disk').l, op'.item) = Count(history.l, op'.item) - 1
      ]_vars

\* A delete of a record the history held twice: one occurrence is still
\* there, in memory and in the document.
C2_Witness ==
    /\ op.name = "delete" /\ raised = ""
    /\ Contains(history.l, op.item)
    /\ load_history(disk) = history

(***************************************************************************)
(* C3                                                                      *)
(***************************************************************************)
\* C3: a confirmed delete of a record the history holds removes exactly the
\* first element equal to it, keeps the others in order and calls
\* save_history, after which (unless the write itself failed) the document
\* decodes to the updated sequence; a confirmed delete of a record the
\* history does not hold leaves the history and the document unchanged and
\* lets no exception escape.
C3_RemoveFirstMatch ==
    [][ op'.name \in {"delete", "delete_not_found"} =>
          IF Contains(history.l, op'.item)
          THEN /\ WithoutFirst(history.l, op'.item, history'.l)
               /\ calls' \in {<<"askyesno", "remove", "save_history">>,
                              <<"askyesno", "remove", "save_history", "refresh_history">>}
               /\ raised' \in {"", "OSError"}
               /\ raised' = "" => disk'.exists /\ JsonLoad(disk'.text) = history'
          ELSE /\ history' = history
               /\ disk' = disk
               /\ raised' = ""
      ]_vars

\* A confirmed delete from a stale row: the record is no longer in the list.
C3_Witness ==
    /\ op.name = "delete_not_found"
    /\ ~Contains(history.l, op.item)
    /\ raised = ""

(***************************************************************************)
(* C4                                                                      *)
(***************************************************************************)
\* C4: at start-up load() yields the empty sequence when the document is
\* missing, unparseable or not an array of Record objects, and the stored
\* records otherwise; the history is then a list and rendering it succeeds.
C4_LoadAbsorbsMalformed ==
    op.name = "startup" =>
        /\ history.t = "list"
        /\ IF IsArrayOfRecords(disk) THEN history = JsonLoad(disk.text)
           ELSE history = PyList(<<>>)
        /\ raised = ""

(***************************************************************************)
(* C5                                                                      *)
(***************************************************************************)
\* C5 as stated: for well-formed triples, decode returns d + m/60 + s/3600
\* for each coordinate, negated exactly when the coordinate's ref tag is
\* present and is not "N" (latitude) or "E" (longitude).
C5_NegatedWhenRefPresentAndNotPositive ==
    (Decoded /\ WellFormedGps) =>
        coords = PyTuple(<<
            Signed(Magnitude(GpsTable.d["GPSLatitude"]),
                   /\ "GPSLatitudeRef" \in Keys(GpsTable)
                   /\ GpsTable.d["GPSLatitudeRef"] # PyStr("N")),
            Signed(Magnitude(GpsTable.d["GPSLongitude"]),
                   /\ "GPSLongitudeRef" \in Keys(GpsTable)
                   /\ GpsTable.d["GPSLongitudeRef"] # PyStr("E")) >>)

\* C5 amended: for well-formed triples, decode returns d + m/60 + s/3600 for
\* each coordinate, negated exactly when the coordinate's ref tag is present,
\* not empty, and not "N" (latitude) or "E" (longitude); an absent or
\* empty ref leaves the sign unchanged.
C5_DecodeValue ==
    (Decoded /\ WellFormedGps) =>
        coords = PyTuple(<<
            Signed(Magnitude(GpsTable.d["GPSLatitude"]),
                   /\ "GPSLatitudeRef" \in Keys(GpsTable)
                   /\ GpsTable.d["GPSLatitudeRef"] \notin {PyStr(""), PyStr("N")}),
            Signed(Magnitude(GpsTable.d["GPSLongitude"]),
                   /\ "GPSLongitudeRef" \in Keys(GpsTable)
                   /\ GpsTable.d["GPSLongitudeRef"] \notin {PyStr(""), PyStr("E")}) >>)

\* Ratio components, an empty latitude ref (sign kept) and ref "W" (negated).
C5_Witness ==
    /\ Decoded /\ WellFormedGps
    /\ GpsTable.d["GPSLatitude"] = Triple(Ratio(53, 2), Num(40), Ratio(53, 2))
    /\ GpsTable.d["GPSLongitude"] = Triple(Num(40), Ratio(53, 2), Num(40))
    /\ "GPSLatitudeRef" \in Keys(GpsTable) /\ GpsTable.d["GPSLatitudeRef"] = PyStr("")
    /\ "GPSLongitudeRef" \in Keys(GpsTable) /\ GpsTable.d["GPSLongitudeRef"] = PyStr("W")
    /\ coords.t = "tuple"
    /\ coords.l[1].q[1] > 0 /\ coords.l[2].q[1] < 0

(***************************************************************************)
(* C6                                                                      *)
(***************************************************************************)
\* C6: decode returns None whenever the GPS table, a triple, or a component
\* of a triple is missing or malformed (fewer than three components, a
\* component that is neither a number nor a ratio pair with a non-zero
\* denominator); otherwise it returns both coordinates, never just one,
\* and it never raises.
C6_AbsentWhenMalformed ==
    Decoded =>
        /\ coords.t \in {"None", "tuple"}
        /\ ~WellFormedGps => coords = PyNone
        /\ coords.t = "tuple" =>
              /\ Len(coords.l) = 2
              /\ coords.l[1].t = "float" /\ coords.l[2].t = "float"

\* A well-formed latitude, a longitude with a zero denominator: None.
C6_Witness ==
    /\ Decoded /\ HasGpsTable
    /\ {"GPSLatitude", "GPSLongitude"} \subseteq Keys(GpsTable)
    /\ WellFormedTriple(GpsTable.d["GPSLatitude"])
    /\ GpsTable.d["GPSLongitude"] = Triple(Num(40), Num(26), Ratio(1, 0))
    /\ coords = PyNone

(***************************************************************************)
(* C7                                                                      *)
(***************************************************************************)
\* C7: for every outcome of the HTTP request get_address returns a string:
\* the display_name of a 200 response, or exactly "Address not found".
C7_AlwaysAString ==
    (pc = "pure" /\ address # Unset) =>
        /\ address.t = "str"
        /\ \/ address = ADDRESS_NOT_FOUND
           \/ /\ response.kind = "http" /\ response.status = 200 /\ response.parses
              /\ response.json.t = "dict" /\ "display_name" \in Keys(response.json)
              /\ address = response.json.d["display_name"]

(***************************************************************************)
(* C8                                                                      *)
(***************************************************************************)
\* C8: every record in the history has a non-empty name and path, and every
\* record with status "ok" has latitude in [-90, 90] and longitude in
\* [-180, 180].
C8_RecordsInRange ==
    history.t = "list" =>
        \A i \in 1..Len(history.l) :
            LET item == history.l[i]
            IN  IsRecord(item) =>
                  /\ item.d["name"] # PyStr("") /\ item.d["path"] # PyStr("")
                  /\ item.d["status"] = PyStr("ok") =>
                        /\ RLe(Rat(-90), item.d["lat"].q) /\ RLe(item.d["lat"].q, Rat(90))
                        /\ RLe(Rat(-180), item.d["lon"].q) /\ RLe(item.d["lon"].q, Rat(180))

(***************************************************************************)
(* C9                                                                      *)
(***************************************************************************)
\* C9: at every step of a write the document holds either the previous
\* sequence or the complete new one, and what load() returns after the
\* process was killed mid-write is the previous history or the new one.
C9_CrashKeepsPreviousContent ==
    /\ pc = "saving" => load_history(disk) \in {load_history(disk0), history}
    /\ op.name = "crash" => load_history(disk) \in {load_history(disk0), op.item}

(***************************************************************************)
(* C10                                                                     *)
(***************************************************************************)
\* C10: every upload with a selected file appends exactly one record at the
\* end of the history and leaves the earlier records as they were: a
\* "no_gps" record with the fixed reason and no geocode call when decode
\* yields nothing, else an "ok" record with the decoded coordinates and the
\* address of the one geocode call made before the append; an upload with
\* no file selected changes neither the history nor the document.
C10_UploadAppendsOneRecord ==
    [][ /\ op'.name = "upload" =>
              /\ history.t = "list" /\ history'.t = "list"
              /\ history'.l = Append(history.l, op'.item)
              /\ IF Truthy(coords')
                 THEN /\ op'.item = PyDict([status |-> PyStr("ok"),
                                            name |-> op'.item.d["name"],
                                            path |-> op'.item.d["path"],
                                            lat |-> coords'.l[1], lon |-> coords'.l[2],
                                            address |-> address'])
                      /\ Cardinality({i \in 1..Len(calls') : calls'[i] = "get_address"}) = 1
                      /\ \E i, j \in 1..Len(calls') :
                            i < j /\ calls'[i] = "get_address" /\ calls'[j] = "append"
                 ELSE /\ op'.item = PyDict([status |-> PyStr("no_gps"),
                                            name |-> op'.item.d["name"],
                                            path |-> op'.item.d["path"],
                                            reason |-> NO_GPS_REASON_TEXT])
                      /\ \A i \in 1..Len(calls') : calls'[i] # "get_address"
        /\ op'.name = "upload_cancelled" => history' = history /\ disk' = disk
      ]_vars

====
